---- MODULE Spec2Model ----
(***************************************************************************)
(* Post-processing volumes for Autodesk VRED (post-processing.py).         *)
(*                                                                         *)
(* PostProcessingController hooks into the host's update loop: every frame *)
(* loop() looks for the tagged volume whose bounding box holds the camera, *)
(* retargets exposure and saturation when that volume changes, and moves   *)
(* the camera's values one smoothing step toward the targets.              *)
(*                                                                         *)
(* Numbers: exposure and saturation are floats in the program.  They are   *)
(* modelled as decimal fixed-point numbers counted in hundredths (Scale    *)
(* units per 1.0); a product with 0.1 is rounded to the nearest hundredth, *)
(* as float arithmetic rounds to the nearest representable value.          *)
(* Python's None is the empty tuple, a float x the one-element tuple <<x>>.*)
(***************************************************************************)
EXTENDS Integers, Sequences, FiniteSets

\* ------------------------------------------------------------------------
\* Bounds of the model

\* The camera stands on a grid of MaxCoord + 1 points per axis.
MaxCoord == 1

\* ------------------------------------------------------------------------
\* Values

\* Units per 1.0: the values of the model are hundredths.
Scale == 100

\* The threshold 0.1 of smoothCameraParameterUpdate, in hundredths.
Epsilon == 10

\* The factor 0.1 of smoothCameraParameterUpdate is a division by Tenth.
Tenth == 10

None == <<>>

Float(x) == <<x>>

IsFloat(v) == Len(v) = 1

Val(v) == v[1]

\* lastActiveProcessingVolume = None; a volume is its index in
\* postProcessingVolumes (the vrdNode objects are compared by identity).
NoVolume == 0

Abs(x) == IF x >= 0 THEN x ELSE -x

\* Faulty variant: 0.01 typed for the factor 0.1.
TimesHundredth(x) == IF x >= 0 THEN x \div (Tenth * Tenth) ELSE -((-x) \div (Tenth * Tenth))

\* x * 0.1, rounded to the nearest hundredth (the float 0.1 lies just above
\* one tenth, so a tie rounds away from zero).
TimesTenth(x) == IF x >= 0 THEN (x + 5) \div Tenth ELSE -((-x + 5) \div Tenth)

\* The grid points lie 2 apart, so that a face of a box can lie on a grid
\* point or between two of them.
Coord == {2 * i : i \in 0..MaxCoord}

Positions == Coord \X Coord \X Coord

\* ------------------------------------------------------------------------
\* The scene of the host: tagged nodes, metadata sets, the camera's values

Box(lo, hi) == [min |-> lo, max |-> hi]

Node(name, box) == [name |-> name, boundingBox |-> box]

MetadataSet(name, objects, values) ==
    [name |-> name, objects |-> objects, values |-> values]

Both(e, s) == [k \in {"camera:exposure", "camera:saturation"} |->
                 IF k = "camera:exposure" THEN e ELSE s]

OnlyExposure(e) == [k \in {"camera:exposure"} |-> e]

BoxLeft == Box(<<-1, -1, -1>>, <<1, 2, 2>>)

BoxRight == Box(<<1, 0, 0>>, <<3, 3, 3>>)

BoxLeftWide == Box(<<-1, -1, -1>>, <<2, 3, 3>>)

BoxRightWide == Box(<<-1, 0, -1>>, <<3, 3, 3>>)

BoxInner == Box(<<0, 0, 0>>, <<3, 3, 3>>)

BoxAround == Box(<<-1, -1, -1>>, <<9, 9, 9>>)

Scene(tagged, sets, exposure, saturation) ==
    [tagged |-> tagged, sets |-> sets,
     exposure |-> exposure, saturation |-> saturation]

SceneDisjoint ==
    Scene(<<Node("A", BoxLeft), Node("B", BoxRight)>>,
          <<MetadataSet("PostProcessing_CarInterior", <<"A">>, Both(120, 85)),
            MetadataSet("PostProcessing_Night", <<"B">>, Both(85, 115))>>,
          100, 100)

SceneOverlap ==
    Scene(<<Node("A", BoxLeftWide), Node("B", BoxRightWide)>>,
          <<MetadataSet("PostProcessing_CarInterior", <<"A">>, Both(120, 85)),
            MetadataSet("PostProcessing_Night", <<"B">>, Both(85, 115))>>,
          100, 100)

SceneUnmapped ==
    Scene(<<Node("A", BoxLeft), Node("B", BoxRight)>>,
          <<MetadataSet("PostProcessing_CarInterior", <<"A">>, Both(120, 85)),
            MetadataSet("Lighting_Night", <<"B">>, Both(85, 115))>>,
          100, 100)

\* A's set lacks camera:saturation; B has no set at all.
ScenePartial ==
    Scene(<<Node("A", BoxLeft), Node("B", BoxRight)>>,
          <<MetadataSet("PostProcessing_CarInterior", <<"A">>, OnlyExposure(120))>>,
          100, 100)

SceneEmpty ==
    Scene(<<>>,
          <<MetadataSet("PostProcessing_CarInterior", <<"A">>, Both(120, 85))>>,
          100, 120)

SceneDuplicate ==
    Scene(<<Node("A", BoxLeft), Node("A", BoxInner)>>,
          <<MetadataSet("PostProcessing_CarInterior", <<"A">>, Both(120, 85)),
            MetadataSet("Lighting_Night", <<"A">>, Both(100, 100)),
            MetadataSet("PostProcessing_Night", <<"A", "C">>, Both(85, 115))>>,
          100, 100)

\* One volume around the whole grid: a long blend from 0.0 to 10.0.
SceneRamp ==
    Scene(<<Node("A", BoxAround)>>,
          <<MetadataSet("PostProcessing_Bright", <<"A">>, Both(1000, 100))>>,
          0, 100)

Scenes == {SceneDisjoint, SceneOverlap, SceneUnmapped, ScenePartial,
           SceneEmpty, SceneDuplicate, SceneRamp}

\* ------------------------------------------------------------------------
\* State

VARIABLES
    postProcessingVolumes,        \* self.postProcessingVolumes
    postProcessingEffectMapping,  \* self.postProcessingEffectMapping
    originalCameraParameters,     \* self.originalCameraParameters
    exposureTarget,               \* self.exposureTarget
    saturationTarget,             \* self.saturationTarget
    lastActiveProcessingVolume,   \* self.lastActiveProcessingVolume
    active,                       \* vrAEBase's flag behind isActive()
    cameraPosition,               \* camera.getWorldTranslation()
    cameraExposure,               \* camera.getTonemapper().getExposure()
    cameraSaturation,             \* camera.getColorCorrectionSaturation()
    printed,                      \* what the latest loop() call printed
    raised,                       \* whether the latest loop() call raised
    path,                         \* scenario runs: the scenario's record
    transcript                    \* scenario runs: every line printed so far

vars == <<postProcessingVolumes, postProcessingEffectMapping,
          originalCameraParameters, exposureTarget, saturationTarget,
          lastActiveProcessingVolume, active, cameraPosition,
          cameraExposure, cameraSaturation, printed, raised,
          path, transcript>>

\* ------------------------------------------------------------------------
\* Construction

\* str.startswith
StartsWithPostProcessing(name) ==
    name \in {"PostProcessing_CarInterior", "PostProcessing_Night",
              "PostProcessing_Bright"}

initializePostProcessingVolumes(scene) == scene.tagged

RECURSIVE MapNodesKeepingFirst(_, _, _, _)
\* Faulty variant: a name that has a set keeps it.
MapNodesKeepingFirst(mapping, set, objects, i) ==
    IF i > Len(objects) THEN mapping
    ELSE MapNodesKeepingFirst([n \in DOMAIN mapping \cup {objects[i]} |->
                                 IF n \in DOMAIN mapping THEN mapping[n] ELSE set],
                              set, objects, i + 1)

RECURSIVE MapNodes(_, _, _, _)
\* The inner loop: mapping[node.getName()] = set, node by node.
MapNodes(mapping, set, objects, i) ==
    IF i > Len(objects) THEN mapping
    ELSE MapNodes([n \in DOMAIN mapping \cup {objects[i]} |->
                     IF n = objects[i] THEN set ELSE mapping[n]],
                  set, objects, i + 1)

RECURSIVE MapSets(_, _, _)
\* The outer loop over the sets whose name starts with "PostProcessing".
MapSets(mapping, sets, i) ==
    IF i > Len(sets) THEN mapping
    ELSE IF StartsWithPostProcessing(sets[i].name)
         THEN MapSets(MapNodes(mapping, sets[i], sets[i].objects, 1), sets, i + 1)
         ELSE MapSets(mapping, sets, i + 1)

EmptyMapping == [n \in {} |-> None]

initializePostProcessingEffectMapping(scene) == MapSets(EmptyMapping, scene.sets, 1)

\* __init__ in the scene given: the controller's fields and the host's
\* state after construction.
Constructed(scene) ==
    /\ postProcessingVolumes = initializePostProcessingVolumes(scene)
    /\ postProcessingEffectMapping = initializePostProcessingEffectMapping(scene)
    /\ originalCameraParameters =
           [exposure |-> scene.exposure, saturation |-> scene.saturation]
    /\ exposureTarget = Float(scene.exposure)
    /\ saturationTarget = Float(scene.saturation)
    /\ lastActiveProcessingVolume = NoVolume
    /\ active = TRUE
    /\ cameraPosition \in Positions
    /\ cameraExposure = scene.exposure
    /\ cameraSaturation = scene.saturation
    /\ printed = <<>>
    /\ raised = FALSE

InitFrom(scenes) ==
    \E scene \in scenes :
        /\ Constructed(scene)
        /\ path = <<>>
        /\ transcript = <<>>

Init == InitFrom(Scenes)

\* ------------------------------------------------------------------------
\* loop() and what it calls

\* Faulty variant: the faces of the box count as inside.
isCameraInsideClosedBox(position, volume) ==
    \A axis \in 1..3 :
        /\ volume.boundingBox.min[axis] <= position[axis]
        /\ position[axis] <= volume.boundingBox.max[axis]

isCameraInsideBoundingBox(position, volume) ==
    LET min == volume.boundingBox.min
        max == volume.boundingBox.max
        isInsideX == min[1] < position[1] /\ position[1] < max[1]
        isInsideY == min[2] < position[2] /\ position[2] < max[2]
        isInsideZ == min[3] < position[3] /\ position[3] < max[3]
    IN  isInsideX /\ isInsideY /\ isInsideZ

RECURSIVE ScanVolumes(_, _, _)
\* The for loop of loop(): the running value of activeProcessingVolume.
ScanVolumes(position, i, activeProcessingVolume) ==
    IF i > Len(postProcessingVolumes) THEN activeProcessingVolume
    ELSE ScanVolumes(position, i + 1,
                     IF isCameraInsideBoundingBox(position, postProcessingVolumes[i])
                     THEN i ELSE activeProcessingVolume)

\* Faulty variant: the loop stops at the first volume that holds the camera.
findFirstProcessingVolume(position) ==
    LET holding == {i \in DOMAIN postProcessingVolumes :
                      isCameraInsideBoundingBox(position, postProcessingVolumes[i])}
    IN  IF holding = {} THEN NoVolume
        ELSE CHOOSE i \in holding : \A j \in holding : i <= j

findActiveProcessingVolume(position) == ScanVolumes(position, 1, NoVolume)

\* vrdMetadataSet.getValue: no value for a key the set does not hold.
getValue(effect, key) ==
    IF key \in DOMAIN effect.values THEN Float(effect.values[key]) ELSE None

Targets(e, s) == [exposure |-> e, saturation |-> s]

\* Faulty variant: a volume without a set falls back to the original values.
setPostProcessingEffectsOrReset(volume) ==
    LET name == postProcessingVolumes[volume].name
    IN  IF name \in DOMAIN postProcessingEffectMapping
        THEN Targets(getValue(postProcessingEffectMapping[name], "camera:exposure"),
                     getValue(postProcessingEffectMapping[name], "camera:saturation"))
        ELSE Targets(Float(originalCameraParameters.exposure),
                     Float(originalCameraParameters.saturation))

\* Faulty variant: the set's values are taken only while the targets are the
\* original values, so a volume entered from another volume keeps that
\* volume's targets.
setPostProcessingEffectsFromBaseline(volume) ==
    LET name == postProcessingVolumes[volume].name
    IN  IF /\ name \in DOMAIN postProcessingEffectMapping
           /\ exposureTarget = Float(originalCameraParameters.exposure)
           /\ saturationTarget = Float(originalCameraParameters.saturation)
        THEN Targets(getValue(postProcessingEffectMapping[name], "camera:exposure"),
                     getValue(postProcessingEffectMapping[name], "camera:saturation"))
        ELSE Targets(exposureTarget, saturationTarget)

setPostProcessingEffects(volume) ==
    LET name == postProcessingVolumes[volume].name
    IN  IF name \in DOMAIN postProcessingEffectMapping
        THEN Targets(getValue(postProcessingEffectMapping[name], "camera:exposure"),
                     getValue(postProcessingEffectMapping[name], "camera:saturation"))
        ELSE Targets(exposureTarget, saturationTarget)

\* Faulty variant: the reset restores the exposure only.
resetExposureOnly ==
    Targets(Float(originalCameraParameters.exposure), saturationTarget)

resetPostProcessingEffects ==
    Targets(Float(originalCameraParameters.exposure),
            Float(originalCameraParameters.saturation))

\* Faulty variant: no threshold, the value is written whenever it differs.
SmoothWithoutThreshold(current, target) ==
    IF target # current THEN current + TimesTenth(target - current) ELSE current

\* Faulty variant: the step is added to the target instead of the current value.
SmoothPastTarget(current, target) ==
    IF Abs(target - current) > Epsilon
    THEN target + TimesTenth(target - current)
    ELSE current

\* One parameter of smoothCameraParameterUpdate: the value the camera holds
\* after the conditional write.
Smooth(current, target) ==
    IF Abs(target - current) > Epsilon
    THEN current + TimesTenth(target - current)
    ELSE current

\* abs(None - x) raises TypeError before either value is written.
smoothCameraParameterUpdate(targets) ==
    IF IsFloat(targets.exposure) /\ IsFloat(targets.saturation)
    THEN [exposure |-> Smooth(cameraExposure, Val(targets.exposure)),
          saturation |-> Smooth(cameraSaturation, Val(targets.saturation)),
          raised |-> FALSE]
    ELSE [exposure |-> cameraExposure, saturation |-> cameraSaturation,
          raised |-> TRUE]

Entered(volume) == <<"Camera entered post processing volume: ",
                     postProcessingVolumes[volume].name>>

Left == <<"Camera left post processing volume">>

\* Faulty variant: the comparison with lastActiveProcessingVolume is dropped, so a
\* frame inside a volume enters it again and a frame outside resets again.
TransitionEveryFrame(position) ==
    LET activeProcessingVolume == findActiveProcessingVolume(position)
    IN  IF activeProcessingVolume # NoVolume
        THEN [targets |-> setPostProcessingEffects(activeProcessingVolume),
              last |-> activeProcessingVolume,
              printed |-> Entered(activeProcessingVolume)]
        ELSE [targets |-> resetPostProcessingEffects,
              last |-> activeProcessingVolume,
              printed |-> Left]

\* Faulty variant: the exit stores None but leaves the targets as the volume
\* set them.
TransitionExitKeepsTargets(position) ==
    LET activeProcessingVolume == findActiveProcessingVolume(position)
    IN  IF lastActiveProcessingVolume # activeProcessingVolume
        THEN IF activeProcessingVolume # NoVolume
             THEN [targets |-> setPostProcessingEffects(activeProcessingVolume),
                   last |-> activeProcessingVolume,
                   printed |-> Entered(activeProcessingVolume)]
             ELSE [targets |-> Targets(exposureTarget, saturationTarget),
                   last |-> activeProcessingVolume,
                   printed |-> Left]
        ELSE [targets |-> Targets(exposureTarget, saturationTarget),
              last |-> activeProcessingVolume,
              printed |-> <<>>]

\* Faulty variant: a change from one volume to another is handled as an exit
\* first; the enter follows on the next frame.
TransitionViaOutside(position) ==
    LET activeProcessingVolume == findActiveProcessingVolume(position)
    IN  IF lastActiveProcessingVolume # activeProcessingVolume
        THEN IF activeProcessingVolume # NoVolume /\ lastActiveProcessingVolume = NoVolume
             THEN [targets |-> setPostProcessingEffects(activeProcessingVolume),
                   last |-> activeProcessingVolume,
                   printed |-> Entered(activeProcessingVolume)]
             ELSE [targets |-> resetPostProcessingEffects,
                   last |-> NoVolume,
                   printed |-> Left]
        ELSE [targets |-> Targets(exposureTarget, saturationTarget),
              last |-> activeProcessingVolume,
              printed |-> <<>>]

\* The body of "if self.isActive() == True": the new targets, the new
\* lastActiveProcessingVolume and the line printed, for the camera at position.
Transition(position) ==
    LET activeProcessingVolume == findActiveProcessingVolume(position)
    IN  IF lastActiveProcessingVolume # activeProcessingVolume
        THEN IF activeProcessingVolume # NoVolume
             THEN [targets |-> setPostProcessingEffects(activeProcessingVolume),
                   last |-> activeProcessingVolume,
                   printed |-> Entered(activeProcessingVolume)]
             ELSE [targets |-> resetPostProcessingEffects,
                   last |-> activeProcessingVolume,
                   printed |-> Left]
        ELSE [targets |-> Targets(exposureTarget, saturationTarget),
              last |-> activeProcessingVolume,
              printed |-> <<>>]

\* Faulty variant: a frame of an inactive controller forces the reset.
SkippedWithReset ==
    [targets |-> resetPostProcessingEffects,
     last |-> NoVolume,
     printed |-> <<>>]

Skipped ==
    [targets |-> Targets(exposureTarget, saturationTarget),
     last |-> lastActiveProcessingVolume,
     printed |-> <<>>]

\* Faulty variant: entering a volume captures the camera's values as the new
\* originals.
loopRecapturing(position) ==
    \E t \in {IF active = TRUE THEN Transition(position) ELSE Skipped} :
    \E c \in {smoothCameraParameterUpdate(t.targets)} :
        /\ cameraPosition' = position
        /\ exposureTarget' = t.targets.exposure
        /\ saturationTarget' = t.targets.saturation
        /\ lastActiveProcessingVolume' = t.last
        /\ printed' = t.printed
        /\ cameraExposure' = c.exposure
        /\ cameraSaturation' = c.saturation
        /\ raised' = c.raised
        /\ originalCameraParameters' =
               IF t.printed # <<>> /\ t.printed # Left
               THEN [exposure |-> cameraExposure, saturation |-> cameraSaturation]
               ELSE originalCameraParameters
        /\ UNCHANGED <<postProcessingVolumes, postProcessingEffectMapping, active>>

\* Faulty variant: the smoothing step is part of the body guarded by
\* isActive, so an inactive controller leaves the camera's values alone.
loopBlendWhenActive(position) ==
    \E t \in {IF active = TRUE THEN Transition(position) ELSE Skipped} :
    \E c \in {IF active = TRUE
              THEN smoothCameraParameterUpdate(t.targets)
              ELSE [exposure |-> cameraExposure, saturation |-> cameraSaturation,
                    raised |-> FALSE]} :
        /\ cameraPosition' = position
        /\ exposureTarget' = t.targets.exposure
        /\ saturationTarget' = t.targets.saturation
        /\ lastActiveProcessingVolume' = t.last
        /\ printed' = t.printed
        /\ cameraExposure' = c.exposure
        /\ cameraSaturation' = c.saturation
        /\ raised' = c.raised
        /\ UNCHANGED <<postProcessingVolumes, postProcessingEffectMapping,
                       originalCameraParameters, active>>

\* One frame: the host calls loop() with the camera at position.
loop(position) ==
    \E t \in {IF active = TRUE THEN Transition(position) ELSE Skipped} :
    \E c \in {smoothCameraParameterUpdate(t.targets)} :
        /\ cameraPosition' = position
        /\ exposureTarget' = t.targets.exposure
        /\ saturationTarget' = t.targets.saturation
        /\ lastActiveProcessingVolume' = t.last
        /\ printed' = t.printed
        /\ cameraExposure' = c.exposure
        /\ cameraSaturation' = c.saturation
        /\ raised' = c.raised
        /\ UNCHANGED <<postProcessingVolumes, postProcessingEffectMapping,
                       originalCameraParameters, active>>

\* Faulty variant: activating the controller forgets the stored volume.
setActiveForgetting(state) ==
    /\ active # state
    /\ active' = state
    /\ lastActiveProcessingVolume' =
           IF state THEN NoVolume ELSE lastActiveProcessingVolume
    /\ UNCHANGED <<postProcessingVolumes, postProcessingEffectMapping,
                   originalCameraParameters, exposureTarget, saturationTarget,
                   cameraPosition, cameraExposure,
                   cameraSaturation, printed, raised, path, transcript>>

\* vrAEBase.setActive, called by the host or the user's script.
setActive(state) ==
    /\ active # state
    /\ active' = state
    /\ UNCHANGED <<postProcessingVolumes, postProcessingEffectMapping,
                   originalCameraParameters, exposureTarget, saturationTarget,
                   lastActiveProcessingVolume, cameraPosition, cameraExposure,
                   cameraSaturation, printed, raised, path, transcript>>

Frame == \E position \in Positions : loop(position) /\ UNCHANGED <<path, transcript>>

Toggle == \E state \in BOOLEAN : setActive(state)

Next == Frame \/ Toggle

Spec == Init /\ [][Next]_vars

\* The host calls loop() on every frame: a frame with the camera where it
\* stands cannot stay due forever.
FrameHere == loop(cameraPosition) /\ UNCHANGED <<path, transcript>>

FairSpec == Spec /\ WF_vars(FrameHere)

\* ------------------------------------------------------------------------
\* Terms of the properties

Volumes == DOMAIN postProcessingVolumes

\* The box of volume i holds the point: strictly between min and max on
\* every axis.
Contains(point, i) ==
    \A axis \in 1..3 :
        /\ postProcessingVolumes[i].boundingBox.min[axis] < point[axis]
        /\ point[axis] < postProcessingVolumes[i].boundingBox.max[axis]

\* On one axis at least the point lies on or beyond a bound of the box.
OnOrBeyondABound(point, i) ==
    \E axis \in 1..3 :
        \/ point[axis] <= postProcessingVolumes[i].boundingBox.min[axis]
        \/ point[axis] >= postProcessingVolumes[i].boundingBox.max[axis]

\* The point lies on a face of the box: on a bound on one axis, strictly
\* between the bounds on the two others.
OnAFace(point, i) ==
    \E axis \in 1..3 :
        /\ \/ point[axis] = postProcessingVolumes[i].boundingBox.min[axis]
           \/ point[axis] = postProcessingVolumes[i].boundingBox.max[axis]
        /\ \A other \in (1..3) \ {axis} :
               /\ postProcessingVolumes[i].boundingBox.min[other] < point[other]
               /\ point[other] < postProcessingVolumes[i].boundingBox.max[other]

\* The last volume in registration order that holds the point, if any.
LastContaining(point) ==
    IF \E i \in Volumes : Contains(point, i)
    THEN CHOOSE i \in Volumes :
             /\ Contains(point, i)
             /\ \A j \in Volumes : Contains(point, j) => j <= i
    ELSE NoVolume

Baseline ==
    Targets(Float(originalCameraParameters.exposure),
            Float(originalCameraParameters.saturation))

CurrentTargets == Targets(exposureTarget, saturationTarget)

\* A step of an active controller that is a frame: setActive changes active.
ActiveFrame == active /\ active' /\ vars' # vars

\* ------------------------------------------------------------------------
\* C1: isCameraInsideBoundingBox answers true exactly for the points that
\* lie strictly between the box's minimum and maximum on all three axes;
\* for a point on or beyond a bound on some axis it answers false.  Stated
\* for the camera's position and every volume of the scene.
C1_StrictContainment ==
    \A i \in Volumes :
        /\ isCameraInsideBoundingBox(cameraPosition, postProcessingVolumes[i])
               <=> Contains(cameraPosition, i)
        /\ OnOrBeyondABound(cameraPosition, i)
               => ~isCameraInsideBoundingBox(cameraPosition, postProcessingVolumes[i])

\* The camera has left volume i by stepping onto one of its faces.
C1_Witness ==
    /\ printed = Left
    /\ lastActiveProcessingVolume = NoVolume
    /\ \E i \in Volumes : OnAFace(cameraPosition, i)

\* C2: on every frame of an active controller the active volume is the last
\* volume in registration order whose box holds the camera, and None exactly
\* when no box holds it.
C2_LastRegisteredWins ==
    [][ActiveFrame =>
          /\ lastActiveProcessingVolume' = LastContaining(cameraPosition')
          /\ (lastActiveProcessingVolume' = NoVolume
                 <=> ~\E i \in Volumes : Contains(cameraPosition', i))]_vars

\* The camera stands in A and in B, registered in this order: B is active.
C2_Witness ==
    /\ active
    /\ Len(postProcessingVolumes) = 2
    /\ Contains(cameraPosition, 1)
    /\ Contains(cameraPosition, 2)
    /\ lastActiveProcessingVolume = 2
    /\ printed = Entered(2)

\* ------------------------------------------------------------------------
\* The scenario of C3: two volumes that do not overlap, a controller that
\* stays active, and frames that find the camera outside, then inside one
\* volume, outside, inside the other volume, outside; each for any number
\* of frames.  path is the sequence of volumes the frames have met so far
\* (a run of frames in the same place counts once), transcript the lines
\* loop() has printed.

BoxesApart(a, b) ==
    \E axis \in 1..3 : a.max[axis] <= b.min[axis] \/ b.max[axis] <= a.min[axis]

PathScenes ==
    {scene \in Scenes :
        /\ Len(scene.tagged) = 2
        /\ BoxesApart(scene.tagged[1].boundingBox, scene.tagged[2].boundingBox)}

OnThePath(p) ==
    /\ Len(p) <= 5
    /\ \A k \in DOMAIN p : (k % 2 = 1) <=> (p[k] = NoVolume)
    /\ Len(p) >= 4 => p[2] # p[4]

PathAfter(position) ==
    IF path # <<>> /\ path[Len(path)] = LastContaining(position)
    THEN path
    ELSE Append(path, LastContaining(position))

PathFrame ==
    \E position \in Positions :
        /\ OnThePath(PathAfter(position))
        /\ loop(position)
        /\ path' = PathAfter(position)
        /\ transcript' = IF printed' = <<>> THEN transcript
                                            ELSE Append(transcript, printed')

SpecPath == InitFrom(PathScenes) /\ [][PathFrame]_vars

\* The lines the path calls for: one per change of place, an enter for a
\* volume and an exit for the outside.
ExpectedTranscript ==
    [k \in 1..(Len(path) - 1) |->
        IF path[k + 1] # NoVolume THEN Entered(path[k + 1]) ELSE Left]

\* C3: along the path outside, A, outside, B, outside the controller has
\* printed, at every moment, exactly one enter per volume met and one exit
\* per volume left, in the order of the path; a frame that finds the camera
\* where the frame before found it prints nothing.
C3_OnePairPerVolume ==
    /\ transcript = ExpectedTranscript
    /\ (printed # <<>> => transcript # <<>> /\ transcript[Len(transcript)] = printed)

\* The whole path has been walked: enter, exit, enter, exit.
C3_Witness ==
    /\ Len(path) = 5
    /\ transcript = <<Entered(path[2]), Left, Entered(path[4]), Left>>
    /\ path[2] # path[4]

\* C4: on every exit (a frame of an active controller that had a volume
\* stored and finds the camera in no volume) both targets are the baseline
\* values after the frame, whatever the volume had set.
C4_ExitResetsBoth ==
    [][(ActiveFrame /\ lastActiveProcessingVolume # NoVolume
          /\ ~\E i \in Volumes : Contains(cameraPosition', i))
         => /\ exposureTarget' = Baseline.exposure
            /\ saturationTarget' = Baseline.saturation
            /\ printed' = Left]_vars

\* The camera has left a volume whose set holds camera:exposure only, which
\* made the frames inside it raise; the exit frame has both targets back.
C4_Witness ==
    /\ printed = Left
    /\ CurrentTargets = Baseline
    /\ raised = FALSE
    /\ \E i \in Volumes :
          /\ postProcessingVolumes[i].name \in DOMAIN postProcessingEffectMapping
          /\ DOMAIN postProcessingEffectMapping[postProcessingVolumes[i].name].values
                = {"camera:exposure"}
          /\ OnAFace(cameraPosition, i)


\* ------------------------------------------------------------------------
\* Terms of the properties on entering a volume and on the smoothing step

NameOf(i) == postProcessingVolumes[i].name

HasEffect(i) == NameOf(i) \in DOMAIN postProcessingEffectMapping

KeysOf(i) == DOMAIN postProcessingEffectMapping[NameOf(i)].values

\* A frame of an active controller that finds the camera in volume i, which
\* is not the volume stored by the frame before.
Enters(i) ==
    /\ ActiveFrame
    /\ i # NoVolume
    /\ LastContaining(cameraPosition') = i
    /\ lastActiveProcessingVolume # i

TargetsAreFloats == IsFloat(exposureTarget) /\ IsFloat(saturationTarget)

\* A step that is a frame, of an active controller or not.
AnyFrame == active' = active /\ vars' # vars

\* The smoothing step of one parameter asked for by C8, from current to
\* next toward target: a tenth of the way, to the nearest hundredth.
StepsTowards(current, target, next) ==
    /\ 2 * Abs(Tenth * (next - current) - (target - current)) <= Tenth
    /\ Abs(target - next) < Abs(target - current)
    /\ (target > current) => (next > current /\ target > next)
    /\ (target < current) => (next < current /\ target < next)

\* C5 (the claim as stated): on entering a volume whose set holds only some
\* of camera:exposure and camera:saturation, the target of a parameter the
\* set holds becomes the set's value and the target of a parameter the set
\* lacks keeps the value it had before the frame.
C5_MissingKeptAsStated ==
    [][\A i \in Volumes :
          (Enters(i) /\ HasEffect(i)) =>
             /\ exposureTarget' =
                   IF "camera:exposure" \in KeysOf(i)
                   THEN Float(postProcessingEffectMapping[NameOf(i)].values["camera:exposure"])
                   ELSE exposureTarget
             /\ saturationTarget' =
                   IF "camera:saturation" \in KeysOf(i)
                   THEN Float(postProcessingEffectMapping[NameOf(i)].values["camera:saturation"])
                   ELSE saturationTarget]_vars

C7_FixedPoint ==
    [][AnyFrame =>
          /\ (IsFloat(exposureTarget')
                 /\ Abs(Val(exposureTarget') - cameraExposure) <= Epsilon)
               => cameraExposure' = cameraExposure
          /\ (IsFloat(saturationTarget')
                 /\ Abs(Val(saturationTarget') - cameraSaturation) <= Epsilon)
               => cameraSaturation' = cameraSaturation]_vars

\* The blend has come to rest exactly 0.1 short of a target it started
\* further away from.
C7_Witness ==
    /\ TargetsAreFloats
    /\ Abs(Val(exposureTarget) - cameraExposure) = Epsilon
    /\ Val(exposureTarget) # originalCameraParameters.exposure
    /\ printed = <<>>

Settled ==
    /\ TargetsAreFloats
    /\ Abs(Val(exposureTarget) - cameraExposure) <= Epsilon
    /\ Abs(Val(saturationTarget) - cameraSaturation) <= Epsilon

C10_BaselineKept ==
    \E scene \in Scenes :
        /\ postProcessingVolumes = initializePostProcessingVolumes(scene)
        /\ postProcessingEffectMapping = initializePostProcessingEffectMapping(scene)
        /\ originalCameraParameters =
               [exposure |-> scene.exposure, saturation |-> scene.saturation]

\* Volumes have been entered and left, the controller has been switched
\* off, and the camera's values have moved away from the originals.
C10_Witness ==
    /\ printed = Left
    /\ ~active
    /\ cameraExposure # originalCameraParameters.exposure
    /\ cameraSaturation # originalCameraParameters.saturation

\* C11: in every state in which no volume is stored as the active one (at
\* construction and after every frame of an active controller that found
\* the camera in no volume) both targets are the baseline values.
C11_BaselineOutside ==
    lastActiveProcessingVolume = NoVolume =>
        /\ exposureTarget = Float(originalCameraParameters.exposure)
        /\ saturationTarget = Float(originalCameraParameters.saturation)

\* The camera has left a volume whose targets differ from the baseline, the
\* values are still on their way back, and later frames outside have kept
\* None stored.
C11_Witness ==
    /\ lastActiveProcessingVolume = NoVolume
    /\ printed = <<>>
    /\ active
    /\ cameraExposure # originalCameraParameters.exposure
    /\ \E i \in Volumes :
          /\ HasEffect(i)
          /\ KeysOf(i) = {"camera:exposure", "camera:saturation"}
          /\ OnAFace(cameraPosition, i)

\* One run of the blend step on one parameter, from current to next with
\* the target given: no write within 0.1 of the target, a tenth of the way
\* beyond that.
OneBlendStep(current, target, next) ==
    IF Abs(target - current) > Epsilon
    THEN StepsTowards(current, target, next)
    ELSE next = current

\* C12: every frame, of an active controller or an inactive one, with a
\* transition or without, runs the blend step once, on the targets the
\* frame's transition handling has left: each value makes one step toward
\* its target.  Where a target is no number (C5) the one run raises and
\* writes nothing.
C12_BlendEveryFrame ==
    [][AnyFrame =>
          IF TargetsAreFloats'
          THEN /\ OneBlendStep(cameraExposure, Val(exposureTarget'), cameraExposure')
               /\ OneBlendStep(cameraSaturation, Val(saturationTarget'), cameraSaturation')
               /\ ~raised'
          ELSE /\ cameraExposure' = cameraExposure
               /\ cameraSaturation' = cameraSaturation
               /\ raised']_vars

\* The last frame was one of an inactive controller (the volume stored is
\* not the one the camera stands in, which an active frame never leaves
\* behind), no line was printed, and the values are on their way, further
\* than the entry frame's one step.
C12_Witness ==
    /\ ~active
    /\ lastActiveProcessingVolume # NoVolume
    /\ lastActiveProcessingVolume # LastContaining(cameraPosition)
    /\ printed = <<>>
    /\ TargetsAreFloats
    /\ Abs(cameraExposure - originalCameraParameters.exposure) > 2
    /\ Abs(Val(exposureTarget) - cameraExposure) > Epsilon

\* C13: no step taken while the controller is inactive (a frame, wherever
\* it finds the camera, or the activation) changes a target or the stored
\* volume, and a frame of an inactive controller prints no enter or exit
\* line; so the values are the same when the controller is active again.
C13_InactiveKeepsState ==
    [][~active =>
          /\ exposureTarget' = exposureTarget
          /\ saturationTarget' = saturationTarget
          /\ lastActiveProcessingVolume' = lastActiveProcessingVolume
          /\ (AnyFrame => printed' = <<>>)]_vars

\* The controller is active again after frames that found the camera
\* outside all volumes while it was inactive: the volume entered before is
\* still stored and the targets are still that volume's, not the baseline.
C13_Witness ==
    /\ active
    /\ lastActiveProcessingVolume # NoVolume
    /\ LastContaining(cameraPosition) = NoVolume
    /\ printed = <<>>
    /\ HasEffect(lastActiveProcessingVolume)
    /\ exposureTarget =
          getValue(postProcessingEffectMapping[NameOf(lastActiveProcessingVolume)],
                   "camera:exposure")
    /\ exposureTarget # Baseline.exposure

\* The value the set of volume i holds for key.
ValueOf(i, key) == Float(postProcessingEffectMapping[NameOf(i)].values[key])

\* C14: a frame of an active controller that has a volume stored and finds
\* the camera in another volume i prints the one enter line for i, no exit
\* line, and stores i; where i has a set, the target of every parameter the
\* set holds becomes the set's value (a parameter the set lacks is C5's
\* case); where i has no set, both targets stay what they were.
C14_DirectSwitch ==
    [][\A i \in Volumes :
          (Enters(i) /\ lastActiveProcessingVolume # NoVolume) =>
             /\ printed' = Entered(i)
             /\ printed' # Left
             /\ lastActiveProcessingVolume' = i
             /\ (HasEffect(i) /\ "camera:exposure" \in KeysOf(i))
                   => exposureTarget' = ValueOf(i, "camera:exposure")
             /\ (HasEffect(i) /\ "camera:saturation" \in KeysOf(i))
                   => saturationTarget' = ValueOf(i, "camera:saturation")
             /\ ~HasEffect(i) =>
                   /\ exposureTarget' = exposureTarget
                   /\ saturationTarget' = saturationTarget]_vars

\* The camera has just entered a volume without a set and the targets are
\* another volume's values, not the baseline: it came from that volume with
\* no frame outside in between.
C14_Witness ==
    /\ active
    /\ lastActiveProcessingVolume # NoVolume
    /\ printed = Entered(lastActiveProcessingVolume)
    /\ ~HasEffect(lastActiveProcessingVolume)
    /\ TargetsAreFloats
    /\ exposureTarget # Baseline.exposure
    /\ \E j \in Volumes :
          /\ HasEffect(j)
          /\ exposureTarget = ValueOf(j, "camera:exposure")
          /\ saturationTarget = ValueOf(j, "camera:saturation")

\* C15: with no volume registered, in every state (the controller active or
\* not, the camera anywhere) no volume is stored, no enter or exit line has
\* been printed, both targets are the baseline and the camera holds the
\* values it held at construction: the blend step has written nothing.
C15_NoVolumes ==
    postProcessingVolumes = <<>> =>
        /\ lastActiveProcessingVolume = NoVolume
        /\ printed = <<>>
        /\ exposureTarget = Float(originalCameraParameters.exposure)
        /\ saturationTarget = Float(originalCameraParameters.saturation)
        /\ cameraExposure = originalCameraParameters.exposure
        /\ cameraSaturation = originalCameraParameters.saturation
        /\ ~raised

\* A scene without volumes whose metadata sets would change both values;
\* the controller has been switched off after its frames.
C15_Witness ==
    /\ postProcessingVolumes = <<>>
    /\ DOMAIN postProcessingEffectMapping # {}
    /\ ~active
    /\ cameraSaturation = originalCameraParameters.saturation
    /\ cameraSaturation # Scale

\* ------------------------------------------------------------------------
\* The scenario of C16: the controller is switched off and on again at any
\* time and the frames find the camera anywhere.  path records the pause:
\* after a frame of the inactive controller it is <<"paused", v, l>>, with v
\* the volume stored when the pause began and l true when a frame of the
\* pause has found the camera outside the box of v; after the first frame
\* of the controller active again it is <<"resumed", v, l>>; else it is <<>>.

InPause == path # <<>> /\ path[1] = "paused"

PauseAfter(position) ==
    IF active
    THEN IF InPause THEN <<"resumed", path[2], path[3]>> ELSE <<>>
    ELSE <<"paused",
           IF InPause THEN path[2] ELSE lastActiveProcessingVolume,
           \/ InPause /\ path[3]
           \/ /\ lastActiveProcessingVolume # NoVolume
              /\ ~Contains(position, lastActiveProcessingVolume)>>

PauseFrame ==
    \E position \in Positions :
        /\ loop(position)
        /\ path' = PauseAfter(position)
        /\ UNCHANGED transcript

PauseNext == PauseFrame \/ Toggle

SpecPause == Init /\ [][PauseNext]_vars

\* C16: the first frame of a controller that is active again after a pause
\* that began with volume A stored compares the volume it finds the camera
\* in with A, still stored: outside all volumes it prints the exit line and
\* resets both targets to the baseline; in another volume B it prints the
\* enter line for B and stores B; in A, also when the camera was outside A
\* during the pause, it prints nothing and leaves the targets and A stored.
C16_FirstFrameAfterPause ==
    [][(ActiveFrame /\ InPause /\ path[2] # NoVolume) =>
          /\ lastActiveProcessingVolume = path[2]
          /\ LastContaining(cameraPosition') = NoVolume =>
                /\ printed' = Left
                /\ exposureTarget' = Baseline.exposure
                /\ saturationTarget' = Baseline.saturation
                /\ lastActiveProcessingVolume' = NoVolume
          /\ LastContaining(cameraPosition') \notin {NoVolume, path[2]} =>
                /\ printed' = Entered(LastContaining(cameraPosition'))
                /\ lastActiveProcessingVolume' = LastContaining(cameraPosition')
          /\ LastContaining(cameraPosition') = path[2] =>
                /\ printed' = <<>>
                /\ exposureTarget' = exposureTarget
                /\ saturationTarget' = saturationTarget
                /\ lastActiveProcessingVolume' = path[2]]_vars

\* The controller is active again and its first frame has found the camera
\* in A, which it had left during the pause: nothing printed, A stored, the
\* targets A's.
C16_Witness ==
    /\ active
    /\ path # <<>>
    /\ path[1] = "resumed"
    /\ path[2] # NoVolume
    /\ path[3]
    /\ LastContaining(cameraPosition) = path[2]
    /\ lastActiveProcessingVolume = path[2]
    /\ printed = <<>>
    /\ HasEffect(path[2])
    /\ exposureTarget = ValueOf(path[2], "camera:exposure")
    /\ exposureTarget # Baseline.exposure

\* C17: in every state in which the stored volume has a set that holds
\* both camera:exposure and camera:saturation, the two targets are that
\* set's values, whatever frames, changes of volume and switches of the
\* controller came before.
C17_TargetsOfStoredVolume ==
    \A v \in Volumes :
        (/\ lastActiveProcessingVolume = v
         /\ HasEffect(v)
         /\ KeysOf(v) = {"camera:exposure", "camera:saturation"})
        => /\ exposureTarget = ValueOf(v, "camera:exposure")
           /\ saturationTarget = ValueOf(v, "camera:saturation")

\* The second of two volumes with different sets is stored, it was entered
\* while the values were still blending toward the first volume's targets,
\* and the controller has since been switched off and has seen the camera
\* outside.
C17_Witness ==
    /\ ~active
    /\ lastActiveProcessingVolume = 2
    /\ HasEffect(1)
    /\ HasEffect(2)
    /\ ValueOf(1, "camera:exposure") # ValueOf(2, "camera:exposure")
    /\ exposureTarget = ValueOf(2, "camera:exposure")
    /\ saturationTarget = ValueOf(2, "camera:saturation")
    /\ LastContaining(cameraPosition) = NoVolume
    /\ Val(exposureTarget) < originalCameraParameters.exposure
    /\ cameraExposure > originalCameraParameters.exposure

\* The values the blend can be asked to reach for a parameter: its original
\* value and the value of every volume's set that holds the parameter.
Reachable(key, original) ==
    {original} \cup
    {postProcessingEffectMapping[NameOf(i)].values[key] :
        i \in {v \in Volumes : HasEffect(v) /\ key \in KeysOf(v)}}

\* x lies between the least and the greatest member of S.
Within(x, S) == (\E lo \in S : lo <= x) /\ (\E hi \in S : x <= hi)

\* C18: in every state each of the camera's two values lies in the closed
\* interval spanned by the original value and the values of all volumes'
\* sets for that parameter, also after the target has changed in the middle
\* of a blend.
C18_WithinRange ==
    /\ Within(cameraExposure,
              Reachable("camera:exposure", originalCameraParameters.exposure))
    /\ Within(cameraSaturation,
              Reachable("camera:saturation", originalCameraParameters.saturation))

\* The target changed in the middle of a blend: the exposure is still above
\* the original value, on its way from one volume's target above to another
\* volume's target below, and has come down for more than the entry frame.
C18_Witness ==
    /\ TargetsAreFloats
    /\ lastActiveProcessingVolume # NoVolume
    /\ printed = <<>>
    /\ Val(exposureTarget) < originalCameraParameters.exposure
    /\ cameraExposure > originalCameraParameters.exposure
    /\ \E i \in Volumes :
          /\ HasEffect(i)
          /\ "camera:exposure" \in KeysOf(i)
          /\ cameraExposure < Val(ValueOf(i, "camera:exposure"))

\* ------------------------------------------------------------------------
\* The scenario of C19: any scene, frames and switches as they come; path
\* holds the metadata sets of the scene, in the order getAllSets returns
\* them.

InitSets ==
    \E scene \in Scenes :
        /\ Constructed(scene)
        /\ path = scene.sets
        /\ transcript = <<>>

SpecSets == InitSets /\ [][Next]_vars

\* The sets of the scene named PostProcessing... that are attached to a
\* node of the name given, by their place in the order.
Attached(name) ==
    {k \in DOMAIN path :
        /\ StartsWithPostProcessing(path[k].name)
        /\ \E j \in DOMAIN path[k].objects : path[k].objects[j] = name}

LastAttached(name) ==
    CHOOSE k \in Attached(name) : \A other \in Attached(name) : other <= k

\* C19: the mapping's keys are the names of the nodes that a set named
\* PostProcessing... is attached to; each name maps to the last such set in
\* the order, so a later set replaces an earlier one of the same node name;
\* no set of another name is a value of the mapping; and on entering a
\* volume the targets become the values of the last set attached to its
\* name (for the parameters that set holds).
C19_LastSetPerName ==
    /\ [](/\ \A name \in DOMAIN postProcessingEffectMapping :
                /\ Attached(name) # {}
                /\ postProcessingEffectMapping[name] = path[LastAttached(name)]
                /\ StartsWithPostProcessing(postProcessingEffectMapping[name].name)
          /\ \A k \in DOMAIN path :
                IF StartsWithPostProcessing(path[k].name)
                THEN \A j \in DOMAIN path[k].objects :
                        path[k].objects[j] \in DOMAIN postProcessingEffectMapping
                ELSE \A name \in DOMAIN postProcessingEffectMapping :
                        postProcessingEffectMapping[name] # path[k])
    /\ [][\A i \in Volumes :
            (Enters(i) /\ Attached(NameOf(i)) # {}) =>
               /\ "camera:exposure" \in DOMAIN path[LastAttached(NameOf(i))].values
                    => exposureTarget' =
                          Float(path[LastAttached(NameOf(i))].values["camera:exposure"])
               /\ "camera:saturation" \in DOMAIN path[LastAttached(NameOf(i))].values
                    => saturationTarget' =
                          Float(path[LastAttached(NameOf(i))].values["camera:saturation"])]_vars

\* A volume has been entered whose name has two sets named PostProcessing...
\* with different values and a set of another name in between: the targets
\* are the values of the later one.
C19_Witness ==
    /\ lastActiveProcessingVolume # NoVolume
    /\ printed = Entered(lastActiveProcessingVolume)
    /\ \E k1 \in Attached(NameOf(lastActiveProcessingVolume)) :
       \E k2 \in Attached(NameOf(lastActiveProcessingVolume)) :
          /\ k1 < k2
          /\ k2 = LastAttached(NameOf(lastActiveProcessingVolume))
          /\ path[k1].values["camera:exposure"] # path[k2].values["camera:exposure"]
          /\ exposureTarget = Float(path[k2].values["camera:exposure"])
          /\ saturationTarget = Float(path[k2].values["camera:saturation"])
          /\ \E k \in DOMAIN path :
                /\ k1 < k
                /\ k < k2
                /\ ~StartsWithPostProcessing(path[k].name)
                /\ \E j \in DOMAIN path[k].objects :
                      path[k].objects[j] = NameOf(lastActiveProcessingVolume)
    /\ "C" \in DOMAIN postProcessingEffectMapping

====
